---- MODULE Spec2Model ----
(***************************************************************************)
(* The circular queue of libac (src/src/ac_cqueue.c) as a state machine.   *)
(*                                                                         *)
(* The struct ac_cqueue_t is the record cq; its fields keep the names of   *)
(* the source.  Item handles are the numbers 1, 2, 3, ... in the order in  *)
(* which the caller hands them to ac_cqueue_push, so every item is         *)
(* distinct.  Besides the program state the module keeps history           *)
(* variables (live, popped, released, last, ...) that only record what the *)
(* operations did; no operation reads them.                                *)
(***************************************************************************)
EXTENDS Integers, Sequences, FiniteSets

\* ---------------------------------------------------------------- bounds
MaxSize == 3            \* largest capacity requested from ac_cqueue_new
MaxItems == 7           \* calls of ac_cqueue_push on a fixed queue
MaxPops == 8            \* calls of ac_cqueue_pop on a fixed queue
MaxGrowItems == 4       \* calls of ac_cqueue_push on a growable queue beyond one chunk
MaxGrowPops == 2        \* calls of ac_cqueue_pop on a growable queue between pushes
MaxStale == 1           \* item handles an unwritten slot may happen to hold
MaxListLen == 3         \* nodes of a singly linked list
MaxListData == 2        \* distinct data handles put on a list

\* ---------------------------------------------------------------- values
AC_CQUEUE_ALLOC_CHUNK_SZ == 16

NULL == 0
\* The content of memory that malloc/realloc returned and nobody wrote.
Uninit == -1
\* A non-null pointer value that is no item handed to the queue.
Junk == -2

\* The most calls of ac_cqueue_push explored on a queue.
PushLimit(q) ==
    IF q.dyn_size THEN AC_CQUEUE_ALLOC_CHUNK_SZ + MaxGrowItems ELSE MaxItems

Items == 1..(IF MaxItems > AC_CQUEUE_ALLOC_CHUNK_SZ + MaxGrowItems
             THEN MaxItems ELSE AC_CQUEUE_ALLOC_CHUNK_SZ + MaxGrowItems)
Handles == Items \cup {NULL, Uninit, Junk}

\* The flag bits a caller may pass; only OVERWRITE is known to the library.
AC_CQUEUE_OVERWRITE == "OVERWRITE"
FlagBits == {AC_CQUEUE_OVERWRITE, "UNKNOWN"}

VARIABLES
    st,         \* "none", "live", "nostorage", "destroyed", "einval", "ub"
    cq,         \* struct ac_cqueue_t
    nitems,     \* history: calls of ac_cqueue_push so far (the last handle)
    npops,      \* history: calls of ac_cqueue_pop so far
    live,       \* history: items pushed successfully, not yet popped/released
    popped,     \* history: items ac_cqueue_pop returned to the caller
    released,   \* history: how often free_item was called with each handle
    lost,       \* history: items whose slot was overwritten without release
    phase,      \* history: "fill" (pushes only), "drain" (then pops only), "mixed"
    last,       \* history: the last operation, its result and the state before
    slist,      \* ac_slist_t *: the data of the nodes, from the head on
    sl_st,      \* "ok", or "ub" once a list operation went through a null pointer
    sl_last     \* history: the last list operation and its result

qvars == <<st, cq, nitems, npops, live, popped, released, lost, phase, last>>
lvars == <<slist, sl_st, sl_last>>
vars == <<qvars, lvars>>

\* ------------------------------------------------------------- helpers
\* The sequence of the indices a, a+1, ..., b-1 (empty when b <= a):
\* the loop  for (i = a; i < b; i++).
Range(a, b) == [k \in 1..(b - a) |-> a + k - 1]

SeqToSet(s) == {s[k] : k \in 1..Len(s)}

Without(s, x) == SelectSeq(s, LAMBDA y : y # x)

\* What a read of a slot can yield where the code branches on the value:
\* an unwritten slot holds an indeterminate value (null, some pointer that
\* is no item, or a stale copy of an item handle).
ReadSlot(v) ==
    IF v = Uninit THEN {NULL, Junk} \cup (1..nitems \cap 1..MaxStale) ELSE {v}

\* The pops explored: any number while the queue is only filled and then
\* drained, a bounded number once pushes follow pops.
PopAllowed(q) ==
    \/ phase # "mixed" /\ npops < PushLimit(q) + 1
    \/ npops < (IF q.dyn_size THEN MaxGrowPops ELSE MaxPops)

NoQueue == [size |-> 0, dyn_size |-> FALSE, overwrite |-> FALSE,
            queue |-> <<>>, front |-> 0, rear |-> 0, count |-> 0]

\* The arguments of ac_cqueue_new and the results of its two malloc calls.
NoArgs == [size |-> 0, flags |-> {}, malloc1 |-> TRUE, malloc2 |-> TRUE]

NoOp == [op |-> "none", ret |-> NULL, pre |-> NoQueue, preLive |-> <<>>,
         freed |-> <<>>, seen |-> <<>>, args |-> NoArgs]

\* queue[i] as the code reads it: a read beyond the allocated slots is
\* undefined and yields an indeterminate value.
Slot(q, i) == IF i \in DOMAIN q.queue THEN q.queue[i] ELSE Uninit

\* ------------------------------------------------------- ac_cqueue_new
\* Lines 47-61: the queue ac_cqueue_new returns when both malloc succeed.
NewQueue(size, flags) ==
    LET n  == IF size = 0 THEN AC_CQUEUE_ALLOC_CHUNK_SZ ELSE size
        ow == AC_CQUEUE_OVERWRITE \in flags
    IN  [size |-> n, dyn_size |-> (size = 0), overwrite |-> ow,
         queue |-> [i \in 0..(n - 1) |-> IF ow THEN NULL ELSE Uninit],
         front |-> 0, rear |-> 0, count |-> 0]

\* Mutant: the flags are not checked.
UnknownFlags_Unchecked(flags) == FALSE

\* Line 40: flags & ~(AC_CQUEUE_OVERWRITE)
UnknownFlags(flags) == flags \ {AC_CQUEUE_OVERWRITE} # {}

\* ------------------------------------------------------ ac_cqueue_push
\* Mutant: the full test is off by one.
PushFull_OffByOne(q) == q.count + 1 >= q.size /\ ~q.dyn_size /\ ~q.overwrite

\* Mutant: the full test uses > instead of ==.
PushFull_Greater(q) == q.count > q.size /\ ~q.dyn_size /\ ~q.overwrite

\* Lines 83-86: the queue is full and may neither grow nor overwrite.
PushFull(q) == q.count = q.size /\ ~q.dyn_size /\ ~q.overwrite

\* Mutant: the storage grows one push early.
PushNeedsGrow_Early(q) == q.count + 1 >= q.size /\ q.dyn_size

\* Line 88: the push has to grow the storage.
PushNeedsGrow(q) == q.count = q.size /\ q.dyn_size

\* Mutant: the grown array is a fresh one, the old slots are not copied.
PushGrow_NoCopy(q) ==
    [q EXCEPT !.queue = [i \in 0..(q.size + AC_CQUEUE_ALLOC_CHUNK_SZ - 1) |-> Uninit],
              !.size = q.size + AC_CQUEUE_ALLOC_CHUNK_SZ]

\* Lines 91-99, realloc succeeded: the old slots keep their content and
\* their indices, the new ones are unwritten.
PushGrow(q) ==
    [q EXCEPT !.queue = [i \in 0..(q.size + AC_CQUEUE_ALLOC_CHUNK_SZ - 1) |->
                            IF i < q.size THEN q.queue[i] ELSE Uninit],
              !.size = q.size + AC_CQUEUE_ALLOC_CHUNK_SZ]

\* Mutant: the size is raised although realloc failed.
PushGrowFailed_SizeRaised(q) ==
    [q EXCEPT !.size = q.size + AC_CQUEUE_ALLOC_CHUNK_SZ]

\* Lines 94-97, realloc failed: the old array is put back, nothing changes.
PushGrowFailed(q) == q

\* Lines 102-103.
PushWrapRear(q) == IF q.rear = q.size THEN [q EXCEPT !.rear = 0] ELSE q

\* Mutant: the overwritten item is never released.
PushEvicts_Never(q, v) == FALSE

\* Mutant: the overwrite flag is not tested.
PushEvicts_AnyMode(q, v) == v # NULL

\* Line 105, with v the value read from queue[rear].
PushEvicts(q, v) == q.overwrite /\ v # NULL

\* Lines 108-111.
PushStore(q, item) ==
    [q EXCEPT !.queue[q.rear] = item,
              !.rear = q.rear + 1,
              !.count = IF q.count < q.size THEN q.count + 1 ELSE q.count]

\* Lines 117-121.
PushMoveFront(q) ==
    IF q.overwrite /\ q.front < q.rear
    THEN [q EXCEPT !.front = IF q.rear = q.size THEN 0 ELSE q.rear]
    ELSE q

\* ------------------------------------------------------- ac_cqueue_pop
\* Mutant: front is not wrapped before the slot is read.
PopWrapFront_Never(q) == q

\* Lines 141-142.
PopWrapFront(q) == IF q.front = q.size THEN [q EXCEPT !.front = 0] ELSE q

\* Lines 143-149, after the wrap of front.
PopTake(q) ==
    [q EXCEPT !.count = q.count - 1,
              !.queue[q.front] = IF q.overwrite THEN NULL ELSE @,
              !.front = q.front + 1]

\* --------------------------------------- ac_cqueue_foreach / _destroy
\* Lines 169-177 and 217-225: the indices the two loops visit, in order.
SpanIdx(q) ==
    IF q.front < q.rear
    THEN Range(q.front, q.rear)
    ELSE Range(q.front, q.size) \o Range(0, q.rear)

SpanItems(q) == [k \in 1..Len(SpanIdx(q)) |-> Slot(q, SpanIdx(q)[k])]

\* Lines 166-177: the handles the action is called with.
ForeachItems(q) == IF q.count = 0 THEN <<>> ELSE SpanItems(q)

\* Lines 217-225: the handles free_item is called with.
DestroyItems(q) == SpanItems(q)

\* Lines 189-206.
ac_cqueue_is_empty(q) == q.count = 0
ac_cqueue_nr_items(q) == q.count

\* ---------------------------------------------------- history helpers
Occurrences(s, x) == Cardinality({k \in 1..Len(s) : s[k] = x})

AddReleases(r, s) == [h \in Handles |-> r[h] + Occurrences(s, h)]

NextPhasePush == IF phase = "fill" THEN "fill" ELSE "mixed"
NextPhasePop == IF phase \in {"fill", "drain"} THEN "drain" ELSE "mixed"

\* ------------------------------------------------------------ ac_slist
ListData == 1..MaxListData

NoListOp == [op |-> "none", data |-> NULL, free_given |-> FALSE,
             freed |-> <<>>, ret |-> FALSE, pre |-> <<>>]

\* ac_slist_add, lines 38-44: the new node goes behind the last one.
SlistAdded(list, data) == Append(list, data)

\* ac_slist_preadd, lines 60-66: the new node becomes the head.
SlistPreadded(list, data) == <<data>> \o list

\* ac_slist_remove, lines 86-97: the position of the first node that holds
\* data, 0 when there is none.
SlistFirst(list, data) ==
    IF \E k \in 1..Len(list) : list[k] = data
    THEN CHOOSE k \in 1..Len(list) :
            list[k] = data /\ \A j \in 1..(k - 1) : list[j] # data
    ELSE 0

\* ac_slist_remove, line 88: the list without its k-th node.
SlistUnlinked(list, k) ==
    [j \in 1..(Len(list) - 1) |-> IF j < k THEN list[j] ELSE list[j + 1]]

\* ac_slist_reverse, lines 109-119.
SlistReversed(list) == [j \in 1..Len(list) |-> list[Len(list) - j + 1]]

\* ac_slist_destroy, line 170: free_data is called on the data of a node
\* without a test; with a NULL free_data that is a call through a null
\* pointer as soon as the list has a node.
DestroyCallsNull(list, free_given) == list # <<>> /\ ~free_given

\* ---------------------------------------------------------------- Init
Init ==
    /\ st = "none"
    /\ cq = NoQueue
    /\ nitems = 0
    /\ npops = 0
    /\ live = <<>>
    /\ popped = {}
    /\ released = [h \in Handles |-> 0]
    /\ lost = {}
    /\ phase = "fill"
    /\ last = NoOp
    /\ slist = <<>>
    /\ sl_st = "ok"
    /\ sl_last = NoListOp

\* ------------------------------------------------------------- actions
\* ac_cqueue_new(size, free_item, flags), lines 34-69.
New ==
    /\ st = "none"
    /\ \E size \in 0..MaxSize, flags \in SUBSET FlagBits,
          malloc1 \in BOOLEAN, malloc2 \in BOOLEAN :
        /\ IF UnknownFlags(flags)
           THEN st' = "einval" /\ cq' = cq                  \* lines 40-43
           ELSE IF ~malloc1
           THEN st' = "ub" /\ cq' = cq                      \* line 48/51 writes through NULL
           ELSE IF ~malloc2 /\ AC_CQUEUE_OVERWRITE \in flags
           THEN st' = "ub" /\ cq' = cq                      \* line 61 memset(NULL, ...)
           ELSE IF ~malloc2
           THEN st' = "nostorage"                           \* returned with queue == NULL
                /\ cq' = [NewQueue(size, flags) EXCEPT !.queue = <<>>]
           ELSE st' = "live" /\ cq' = NewQueue(size, flags)
        /\ last' = [NoOp EXCEPT !.op = "new",
                                !.args = [size |-> size, flags |-> flags,
                                          malloc1 |-> malloc1, malloc2 |-> malloc2]]
    /\ UNCHANGED <<lvars, nitems, npops, live, popped, released, lost, phase>>

\* ac_cqueue_push(cqueue, item) refused, lines 83-86.
PushRefused ==
    /\ st = "live" /\ nitems < PushLimit(cq)
    /\ PushFull(cq)
    /\ nitems' = nitems + 1
    /\ phase' = NextPhasePush
    /\ last' = [NoOp EXCEPT !.op = "push", !.ret = -1, !.pre = cq, !.preLive = live]
    /\ UNCHANGED <<lvars, st, cq, npops, live, popped, released, lost>>

\* ac_cqueue_push(cqueue, item), realloc fails, lines 88-97.
PushNoMem ==
    /\ st = "live" /\ nitems < PushLimit(cq)
    /\ ~PushFull(cq) /\ PushNeedsGrow(cq)
    /\ nitems' = nitems + 1
    /\ phase' = NextPhasePush
    /\ cq' = PushGrowFailed(cq)
    /\ last' = [NoOp EXCEPT !.op = "pushnomem", !.ret = -1, !.pre = cq, !.preLive = live]
    /\ UNCHANGED <<lvars, st, npops, live, popped, released, lost>>

\* ac_cqueue_push(cqueue, item) going through, lines 88-123.
Push ==
    /\ st = "live" /\ nitems < PushLimit(cq)
    /\ ~PushFull(cq)
    /\ LET item == nitems + 1
           q1 == IF PushNeedsGrow(cq) THEN PushGrow(cq) ELSE cq
           q2 == PushWrapRear(q1)
           old == Slot(q2, q2.rear)
       IN  \E v \in ReadSlot(old) :
             LET freed == IF PushEvicts(q2, v) THEN <<v>> ELSE <<>>
                 gone == SeqToSet(freed)
                 kept == SelectSeq(live, LAMBDA y : y \notin gone)
             IN  /\ cq' = PushMoveFront(PushStore(q2, item))
                 /\ released' = AddReleases(released, freed)
                 /\ live' = Append(kept, item)
                 /\ lost' = lost \cup (({old} \cap SeqToSet(live)) \ gone)
                 /\ last' = [NoOp EXCEPT !.op = "push", !.ret = 0, !.pre = cq,
                                         !.preLive = live, !.freed = freed]
    /\ nitems' = nitems + 1
    /\ phase' = NextPhasePush
    /\ UNCHANGED <<lvars, st, npops, popped>>

\* ac_cqueue_pop(cqueue), lines 135-152.
Pop ==
    /\ st = "live" /\ PopAllowed(cq)
    /\ npops' = npops + 1
    /\ phase' = NextPhasePop
    /\ IF cq.count = 0
       THEN /\ last' = [NoOp EXCEPT !.op = "pop", !.ret = NULL, !.pre = cq,
                                    !.preLive = live]
            /\ UNCHANGED <<lvars, cq, live, popped>>
       ELSE LET q1 == PopWrapFront(cq)
                ptr == Slot(q1, q1.front)
            IN  /\ cq' = PopTake(q1)
                /\ live' = Without(live, ptr)
                /\ popped' = popped \cup ({ptr} \cap Items)
                /\ last' = [NoOp EXCEPT !.op = "pop", !.ret = ptr, !.pre = cq,
                                        !.preLive = live]
    /\ UNCHANGED <<lvars, st, nitems, released, lost>>

\* ac_cqueue_foreach(cqueue, action, user_data), lines 161-178.
Foreach ==
    /\ st = "live"
    /\ last' = [NoOp EXCEPT !.op = "foreach", !.pre = cq, !.preLive = live,
                            !.seen = ForeachItems(cq)]
    /\ UNCHANGED <<lvars, st, cq, nitems, npops, live, popped, released, lost, phase>>

\* ac_cqueue_destroy(cqueue), lines 213-229.
Destroy ==
    /\ st = "live"
    /\ st' = "destroyed"
    /\ released' = AddReleases(released, DestroyItems(cq))
    /\ last' = [NoOp EXCEPT !.op = "destroy", !.pre = cq, !.preLive = live,
                            !.freed = DestroyItems(cq)]
    /\ UNCHANGED <<lvars, cq, nitems, npops, live, popped, lost, phase>>

\* ac_slist_add(list, data), lines 32-46.
SlistAdd ==
    /\ sl_st = "ok" /\ Len(slist) < MaxListLen
    /\ \E data \in ListData, malloc_ok \in BOOLEAN :
        /\ IF malloc_ok
           THEN slist' = SlistAdded(slist, data) /\ sl_st' = sl_st
           ELSE slist' = slist /\ sl_st' = "ub"          \* line 36 writes through NULL
        /\ sl_last' = [NoListOp EXCEPT !.op = "add", !.data = data, !.pre = slist]
    /\ UNCHANGED qvars

\* ac_slist_preadd(list, data), lines 56-67.
SlistPreadd ==
    /\ sl_st = "ok" /\ Len(slist) < MaxListLen
    /\ \E data \in ListData, malloc_ok \in BOOLEAN :
        /\ IF malloc_ok
           THEN slist' = SlistPreadded(slist, data) /\ sl_st' = sl_st
           ELSE slist' = slist /\ sl_st' = "ub"          \* line 60 writes through NULL
        /\ sl_last' = [NoListOp EXCEPT !.op = "preadd", !.data = data, !.pre = slist]
    /\ UNCHANGED qvars

\* ac_slist_remove(list, data, free_data), lines 79-100.
SlistRemove ==
    /\ sl_st = "ok"
    /\ \E data \in ListData, free_given \in BOOLEAN :
        LET k == SlistFirst(slist, data)
        IN  /\ slist' = IF k = 0 THEN slist ELSE SlistUnlinked(slist, k)
            /\ sl_last' = [NoListOp EXCEPT
                              !.op = "remove", !.data = data,
                              !.free_given = free_given, !.pre = slist,
                              !.ret = (k # 0),
                              !.freed = IF k # 0 /\ free_given
                                        THEN <<data>> ELSE <<>>]
    /\ UNCHANGED <<sl_st, qvars>>

\* ac_slist_reverse(list), lines 107-120.
SlistReverse ==
    /\ sl_st = "ok"
    /\ slist' = SlistReversed(slist)
    /\ sl_last' = [NoListOp EXCEPT !.op = "reverse", !.pre = slist]
    /\ UNCHANGED <<sl_st, qvars>>

\* ac_slist_destroy(list, free_data), lines 165-174.
SlistDestroy ==
    /\ sl_st = "ok"
    /\ \E free_given \in BOOLEAN :
        /\ IF DestroyCallsNull(slist, free_given)
           THEN slist' = slist /\ sl_st' = "ub"
           ELSE slist' = <<>> /\ sl_st' = sl_st
        /\ sl_last' = [NoListOp EXCEPT
                          !.op = "destroy", !.free_given = free_given,
                          !.pre = slist,
                          !.freed = IF free_given THEN slist ELSE <<>>]
    /\ UNCHANGED qvars

Next ==
    \/ New
    \/ PushRefused
    \/ PushNoMem
    \/ Push
    \/ Pop
    \/ Foreach
    \/ Destroy

Spec == Init /\ [][Next]_vars

\* The singly linked list on its own: the queue and the list share nothing.
NextList ==
    \/ SlistAdd
    \/ SlistPreadd
    \/ SlistRemove
    \/ SlistReverse
    \/ SlistDestroy

SpecList == Init /\ [][NextList]_vars

\* =============================================================== claims
Alive == st = "live"
FixedPlain == Alive /\ ~cq.dyn_size /\ ~cq.overwrite
FixedOverwrite == Alive /\ ~cq.dyn_size /\ cq.overwrite
Min(a, b) == IF a < b THEN a ELSE b

\* A pop that found the queue non-empty returned the oldest item that was
\* pushed and has neither been popped nor released.
PopIsFifo ==
    (last.op = "pop" /\ last.pre.count > 0) =>
        (last.preLive # <<>> /\ last.ret = Head(last.preLive))

\* C1: in a fixed queue without overwrite, after any interleaving of pushes
\* and pops, a pop of a non-empty queue returns the earliest-inserted item
\* not yet popped and a pop of an empty queue returns NULL; from a fresh
\* queue of capacity N the first N pushes succeed, later ones fail and
\* leave count = N, and the pops that follow return the items in insertion
\* order and then NULL.
C1_FixedFifo ==
    FixedPlain =>
        /\ PopIsFifo
        /\ (last.op = "pop" /\ last.pre.count = 0) => last.ret = NULL
        /\ (phase = "fill" /\ last.op = "push") =>
              IF nitems <= cq.size
              THEN last.ret = 0 /\ cq.count = nitems
              ELSE last.ret = -1 /\ cq.count = cq.size /\ cq = last.pre
        /\ (phase = "drain" /\ last.op = "pop") =>
              IF npops <= Min(nitems, cq.size)
              THEN last.ret = npops
              ELSE last.ret = NULL

\* C1 witness: a pop, between pushes, that found front at the end of the
\* array with the live items wrapped around it.
C1_Witness ==
    /\ FixedPlain /\ phase = "mixed" /\ last.op = "pop"
    /\ last.pre.front = last.pre.size /\ last.pre.count > 1
    /\ last.ret \in Items

\* C2: in overwrite mode every pop of a non-empty queue returns the oldest
\* item that was inserted and has been neither popped nor evicted.
C2_OverwriteFrontIsOldest ==
    (Alive /\ cq.overwrite) => PopIsFifo

\* C3: on a fresh fixed overwrite queue of capacity N, N+k pushes (k > 0)
\* without pops all succeed and release exactly the k oldest items, each
\* once and oldest first; the last N items stay, and the pops that follow
\* return them in insertion order and then NULL.
C3_OverwriteKeepsLastN ==
    (FixedOverwrite /\ nitems > cq.size) =>
        /\ (phase = "fill" /\ last.op = "push") =>
              /\ last.ret = 0
              /\ last.freed = <<nitems - cq.size>>
              /\ \A h \in Handles :
                    released[h] = IF h \in 1..(nitems - cq.size) THEN 1 ELSE 0
              /\ live = [k \in 1..cq.size |-> nitems - cq.size + k]
              /\ cq.count = cq.size
        /\ (phase = "drain" /\ last.op = "pop") =>
              /\ IF npops <= cq.size
                 THEN last.ret = nitems - cq.size + npops
                 ELSE last.ret = NULL
              /\ \A h \in Handles :
                    released[h] = IF h \in 1..(nitems - cq.size) THEN 1 ELSE 0

\* C3 witness: N+k pushes wrapped the array more than once and the N pops
\* and one more have been taken.
C3_Witness ==
    /\ FixedOverwrite /\ cq.size >= 2 /\ nitems > 2 * cq.size
    /\ phase = "drain" /\ last.op = "pop" /\ npops = cq.size + 1
    /\ last.ret = NULL

\* C4: ac_cqueue_destroy calls free_item exactly once with every item that
\* is still live and with nothing else (no popped item, no empty slot).
C4_DestroyReleasesLive ==
    (st = "destroyed" /\ last.op = "destroy") =>
        \A h \in Handles :
            Occurrences(last.freed, h) =
                IF h \in SeqToSet(last.preLive) THEN 1 ELSE 0

\* C5: in a growable queue without overwrite, growth keeps the elements and
\* their order: every pop of a non-empty queue returns the earliest-inserted
\* item not yet popped, and no live item is overwritten or lost.
C5_GrowKeepsOrder ==
    (Alive /\ cq.dyn_size /\ ~cq.overwrite) => (PopIsFifo /\ lost = {})

\* C6: ac_cqueue_foreach calls the action with exactly the live items, each
\* once and in insertion order, and leaves the queue as it was.
C6_ForeachVisitsLive ==
    (Alive /\ last.op = "foreach") =>
        (last.seen = last.preLive /\ cq = last.pre)

\* C7: in overwrite mode free_item is called at most once with any item,
\* and never with an item that ac_cqueue_pop returned.
C7_ReleaseAtMostOnce ==
    (st \in {"live", "destroyed"} /\ cq.overwrite) =>
        \A i \in Items :
            /\ released[i] <= 1
            /\ i \in popped => released[i] = 0

\* C8 as stated: between operations 0 <= front < capacity and
\* 0 <= rear <= capacity.
C8_FrontBelowCapacity ==
    Alive => (0 <= cq.front /\ cq.front < cq.size /\
              0 <= cq.rear /\ cq.rear <= cq.size)

\* C8 amended: between operations 0 <= front <= capacity and
\* 0 <= rear <= capacity (front, like rear, is wrapped to 0 only at the
\* start of the next operation that uses it).
C8_IndicesWithinCapacity ==
    Alive => (0 <= cq.front /\ cq.front <= cq.size /\
              0 <= cq.rear /\ cq.rear <= cq.size)

\* C8 witness: a pop took the item of the last slot and left front equal
\* to the capacity.
C8_Witness ==
    Alive /\ last.op = "pop" /\ last.ret \in Items /\ cq.front = cq.size

\* A push that found count = capacity went through by releasing the oldest
\* live item and storing the new item in its slot, with count and capacity
\* as before.
PushReplacedOldest ==
    /\ last.op = "push" /\ last.ret = 0
    /\ last.preLive # <<>>
    /\ last.freed = <<Head(last.preLive)>>
    /\ \E i \in DOMAIN last.pre.queue :
          last.pre.queue[i] = Head(last.preLive) /\ cq.queue[i] = nitems
    /\ cq.count = last.pre.count
    /\ cq.size = last.pre.size

\* C9: with overwrite enabled, in a fixed queue and in one created with
\* capacity 0, a push into a queue with count = capacity releases the
\* oldest item, reuses its slot and leaves count and capacity unchanged.
C9_OverwriteFullPush ==
    (Alive /\ cq.overwrite /\ last.op \in {"push", "pushnomem"}
           /\ last.pre.count = last.pre.size) => PushReplacedOldest

\* C10: ac_cqueue_nr_items is in 0..capacity and is the number of items
\* pushed successfully and since neither popped nor released, and
\* ac_cqueue_is_empty holds exactly when that number is 0.
C10_CountIsLive ==
    Alive =>
        /\ ac_cqueue_nr_items(cq) \in 0..cq.size
        /\ ac_cqueue_nr_items(cq) = Len(live)
        /\ ac_cqueue_is_empty(cq) <=> (Len(live) = 0)

\* C11: a push into a fixed non-overwrite queue with count = capacity
\* returns -1, leaves front, rear, count, capacity and every slot as they
\* were and calls free_item on nothing.
C11_FullPushRefused ==
    (Alive /\ last.op = "push"
           /\ ~last.pre.dyn_size /\ ~last.pre.overwrite
           /\ last.pre.count = last.pre.size) =>
        /\ last.ret = -1
        /\ cq = last.pre
        /\ last.freed = <<>>
        /\ live = last.preLive

\* C11 witness: a refused push on a full queue whose ring is wrapped.
C11_Witness ==
    /\ FixedPlain /\ last.op = "push" /\ last.ret = -1
    /\ cq.count = cq.size /\ cq.size >= 2
    /\ cq.rear = cq.front /\ cq.front > 0

\* C12: a push whose growth fails for lack of memory returns -1 and leaves
\* capacity, front, rear, count and all stored items as they were, so that
\* every later operation starts from the state before the failed push.
C12_FailedGrowthChangesNothing ==
    (Alive /\ last.op = "pushnomem") =>
        /\ last.ret = -1
        /\ cq = last.pre
        /\ last.pre.dyn_size /\ last.pre.count = last.pre.size
        /\ live = last.preLive
        /\ last.freed = <<>>

\* C12 witness: a growth failed on a full growable queue after a pop and
\* a wrapping push.
C12_Witness ==
    /\ Alive /\ last.op = "pushnomem" /\ cq.count = cq.size
    /\ popped # {}

\* C13: the capacity of a queue created with capacity 0 starts at 16 and
\* changes only in a push that finds count = capacity, which adds exactly
\* 16; the capacity of a queue created with capacity > 0 never changes.
C13_CapacitySteps ==
    /\ []((Alive /\ last.op = "new") =>
            cq.size = IF last.args.size = 0 THEN AC_CQUEUE_ALLOC_CHUNK_SZ
                      ELSE last.args.size)
    /\ [][(st = "live" /\ cq'.size # cq.size) =>
            /\ cq.dyn_size
            /\ cq.count = cq.size
            /\ cq'.size = cq.size + AC_CQUEUE_ALLOC_CHUNK_SZ
            /\ last'.op = "push"]_vars

\* C13 witness: a growable queue that has grown once.
C13_Witness ==
    /\ Alive /\ cq.dyn_size /\ last.op = "push"
    /\ last.pre.size = AC_CQUEUE_ALLOC_CHUNK_SZ
    /\ cq.size = 2 * AC_CQUEUE_ALLOC_CHUNK_SZ

\* No push failed for lack of memory and no item went astray: every handle
\* handed to ac_cqueue_push is either in the queue's history of live items
\* or was returned by a pop.
AllPushed == SeqToSet(live) \cup popped = 1..nitems

\* C14: on a fresh growable non-overwrite queue, with allocations
\* succeeding, M pushes all succeed, the capacity is 16 up to the 16th push
\* and 32 from the 17th, the M pops that follow return the items in
\* insertion order and the next pop returns NULL.
C14_GrowFillDrain ==
    (Alive /\ cq.dyn_size /\ ~cq.overwrite /\ AllPushed) =>
        /\ (phase = "fill" /\ last.op = "push") =>
              /\ last.ret = 0
              /\ cq.count = nitems
              /\ cq.size = IF nitems <= AC_CQUEUE_ALLOC_CHUNK_SZ
                           THEN AC_CQUEUE_ALLOC_CHUNK_SZ
                           ELSE 2 * AC_CQUEUE_ALLOC_CHUNK_SZ
        /\ (phase = "drain" /\ last.op = "pop") =>
              IF npops <= nitems THEN last.ret = npops ELSE last.ret = NULL

\* C14 witness: more than 16 items were pushed and all of them and one
\* more pop were taken.
C14_Witness ==
    /\ Alive /\ cq.dyn_size /\ ~cq.overwrite /\ AllPushed
    /\ phase = "drain" /\ last.op = "pop"
    /\ nitems > AC_CQUEUE_ALLOC_CHUNK_SZ /\ npops = nitems + 1
    /\ last.ret = NULL

\* C15: ac_cqueue_new with a flag bit other than AC_CQUEUE_OVERWRITE fails
\* with EINVAL and creates no queue; with valid flags (and memory) it
\* returns an empty queue with front = rear = count = 0, growable iff the
\* requested capacity was 0, overwrite iff the bit was set, and with every
\* slot cleared in overwrite mode.
C15_NewChecksFlags ==
    (last.op = "new") =>
        IF last.args.flags \ {AC_CQUEUE_OVERWRITE} # {}
        THEN st = "einval" /\ cq = NoQueue
        ELSE (last.args.malloc1 /\ last.args.malloc2) =>
                /\ st = "live"
                /\ cq.front = 0 /\ cq.rear = 0 /\ cq.count = 0
                /\ cq.dyn_size <=> (last.args.size = 0)
                /\ cq.overwrite <=> (AC_CQUEUE_OVERWRITE \in last.args.flags)
                /\ cq.size = IF last.args.size = 0
                             THEN AC_CQUEUE_ALLOC_CHUNK_SZ ELSE last.args.size
                /\ DOMAIN cq.queue = 0..(cq.size - 1)
                /\ cq.overwrite => \A i \in DOMAIN cq.queue : cq.queue[i] = NULL

\* C15 witness: a call with the overwrite bit and an unknown bit failed.
C15_Witness ==
    /\ st = "einval" /\ last.op = "new"
    /\ AC_CQUEUE_OVERWRITE \in last.args.flags

\* C16: when a malloc of ac_cqueue_new fails the call reports the failure
\* to its caller: no queue is returned and no null pointer is dereferenced
\* or written through.
C16_NewReportsNoMemory ==
    (last.op = "new" /\ last.args.flags \ {AC_CQUEUE_OVERWRITE} = {}
        /\ ~(last.args.malloc1 /\ last.args.malloc2)) =>
        st \notin {"ub", "nostorage", "live"}

\* C18: in a fixed overwrite queue a push calls free_item only when the
\* queue was full before it, and then on the oldest live item; a push into
\* a queue with count < capacity releases nothing.
C18_EvictOnlyWhenFull ==
    (FixedOverwrite /\ last.op = "push") =>
        /\ (last.freed # <<>>) =>
              /\ last.pre.count = last.pre.size
              /\ last.preLive # <<>>
              /\ last.freed = <<Head(last.preLive)>>
        /\ (last.pre.count < last.pre.size) => last.freed = <<>>

\* The slots from front on, count steps forward modulo the capacity.
Walk(q) == [k \in 1..q.count |-> Slot(q, (q.front + k - 1) % q.size)]

\* C19: in every reachable state (front + count) mod capacity equals
\* rear mod capacity, and the count slots from front on hold the live
\* items in insertion order.
C19_LiveSlotsFromFront ==
    Alive =>
        /\ (cq.front + cq.count) % cq.size = cq.rear % cq.size
        /\ Walk(cq) = live

\* C20: in a non-overwrite queue, fixed or growable, no push, pop or
\* foreach calls free_item, whether it succeeds or fails: as long as the
\* queue is not destroyed nothing has been released.
C20_PlainNeverReleases ==
    (Alive /\ ~cq.overwrite) =>
        /\ \A h \in Handles : released[h] = 0
        /\ last.freed = <<>>

\* C20 witness: in a non-overwrite queue a push reused the slot of an item
\* that had been popped and still sat there.
C20_Witness ==
    /\ Alive /\ ~cq.overwrite /\ last.op = "push" /\ last.ret = 0
    /\ last.pre.rear = last.pre.size
    /\ Slot(last.pre, 0) \in Items

\* C17: ac_slist_destroy called with free_data == NULL, on an empty list
\* or not, frees every node and leaves the head NULL, calls no release
\* function and does not call through the null pointer.
C17_DestroyAcceptsNull ==
    (sl_last.op = "destroy" /\ ~sl_last.free_given) =>
        /\ sl_st = "ok"
        /\ slist = <<>>
        /\ sl_last.freed = <<>>

====
